---------------------------- MODULE Spec2Model ----------------------------
(***************************************************************************)
(* A model of studieren/eco_back: the gormtool.CRUDTool handlers           *)
(* (src/gormtool/crud.go) and the routes of src/main.go, over a relational *)
(* store (users, profiles, tags, user_tags) and an optional Redis cache.   *)
(*                                                                         *)
(* The specifications share the variables:                                 *)
(*   Spec       the application of src/main.go (CRUDTool built without     *)
(*              Redis), one action per route;                              *)
(*   SpecLib    the CRUDTool handlers with or without a Redis client;      *)
(*   SpecQuery  GetByQueryBuilder / BuildQuery applied once to a table     *)
(*              drawn in Init;                                             *)
(*   SpecRel    the CRUDTool handlers with relations;                      *)
(*   SpecLife   the life of one record while the clock advances;           *)
(*   SpecBatch  BatchOperation, the batch route and the reads after them;  *)
(*   SpecRace   concurrent requests, one store or Redis call per step.     *)
(* Outside SpecRace every handler runs to completion in one step; the      *)
(* faults of the store and of Redis are inputs of the step.                *)
(***************************************************************************)
EXTENDS Integers, Sequences, FiniteSets, TLC

VARIABLES
    DB,          \* the store: [users, seq, profiles, tags, user_tags]
    cache,       \* the contents of Redis: cache key (user id) -> cached JSON
    RedisClient, \* CRUDTool.RedisClient: "nil" or "set"
    req,         \* the request (and the faults injected into it) served last
    resp,        \* the HTTP response written last: [status, body]
    log          \* the level of the log entry written last: "info", "error"

vars == <<DB, cache, RedisClient, req, resp, log>>

---------------------------------------------------------------------------
(* Bounds and input sets *)

\* ids 1..MaxID can be given to rows
MaxID == 2

IDs == 1..MaxID

\* strings are sequences of characters, so that LIKE can look inside them
NameA == <<"a">>
NameB == <<"a", "b">>
Names == {NameA, NameB}

TagNames == {"vip"}

\* an optional JSON field: <<>> when the key is absent, <<v>> when present
Absent == <<>>
Opt(S) == {Absent} \cup {<<v>> : v \in S}

\* a path or query parameter as the client sent it
NumParam(n) == [kind |-> "num", n |-> n]
TextParam == [kind |-> "text", n |-> 0]
PathParams == {NumParam(i) : i \in IDs} \cup {TextParam}

\* HTTP status codes (net/http)
StatusOK == 200
StatusCreated == 201
StatusBadRequest == 400
StatusNotFound == 404
StatusInternalServerError == 500

---------------------------------------------------------------------------
(* The store *)

EmptyFn == [x \in {} |-> 0]

\* users: id -> row; updated_at: id -> the column updated_at of the row;
\* seq: the AUTOINCREMENT sequence of users; now: the clock (gorm's NowFunc)
EmptyDB == [users |-> EmptyFn, updated_at |-> EmptyFn, seq |-> 0, now |-> 0,
            profiles |-> {}, tags |-> {}, user_tags |-> {}]

\* a row of table users (models.User without its key)
Row(name, age, deleted) == [Name |-> name, Age |-> age, Deleted |-> deleted]

\* the Go value models.User
ZeroUser == [ID |-> 0, Name |-> <<>>, Age |-> 0, Deleted |-> FALSE, Tags |-> {}]

UserOf(id, row, tags) ==
    [ID |-> id, Name |-> row.Name, Age |-> row.Age, Deleted |-> row.Deleted,
     Tags |-> tags]

RowOf(m) == Row(m.Name, m.Age, m.Deleted)

Max(a, b) == IF a >= b THEN a ELSE b

Range(seq) == {seq[i] : i \in DOMAIN seq}

\* f with x mapped to v, x in its domain or not
Put(f, x, v) == [y \in DOMAIN f \cup {x} |-> IF y = x THEN v ELSE f[y]]

\* f without x
Drop(f, xs) == [y \in DOMAIN f \ xs |-> f[y]]

TagsOf(db, id) == {t \in db.tags : <<id, t>> \in db.user_tags}

\* strconv.Atoi on a path parameter
Atoi(p) == IF p.kind = "num" THEN [v |-> p.n, err |-> FALSE]
           ELSE [v |-> 0, err |-> TRUE]

\* db.First(model, id) in the default scope: soft-deleted rows are not found.
\* The Tags of the model are loaded only under Preload("Tags").
First(db, id, preloads) ==
    IF id \in DOMAIN db.users /\ ~db.users[id].Deleted
    THEN [found |-> TRUE,
          model |-> UserOf(id, db.users[id],
                           IF "Tags" \in preloads THEN TagsOf(db, id) ELSE {})]
    ELSE [found |-> FALSE, model |-> ZeroUser]

\* c.ShouldBindJSON(model): the keys of the body overwrite the model's fields,
\* the key ID included (gorm.Model has no json tags); absent keys keep them.
BindJSON(m, b) ==
    [ID |-> IF b.ID = Absent THEN m.ID ELSE b.ID[1],
     Name |-> IF b.Name = Absent THEN m.Name ELSE b.Name[1],
     Age |-> IF b.Age = Absent THEN m.Age ELSE b.Age[1],
     Deleted |-> IF b.Deleted = Absent THEN m.Deleted ELSE b.Deleted[1],
     Tags |-> IF b.Tags = Absent THEN m.Tags ELSE b.Tags[1]]

\* Association upsert of gorm's create/update callbacks: the tags named in
\* the model are inserted (ON CONFLICT DO NOTHING) and joined to the user.
SaveTags(db, id, tags) ==
    [db EXCEPT !.tags = @ \cup tags,
               !.user_tags = @ \cup {<<id, t>> : t \in tags}]

\* INSERT of a user row: a zero ID takes the next AUTOINCREMENT value, a given
\* ID is kept and fails on a duplicate key.
CreateUser(db, m) ==
    LET id == IF m.ID = 0 THEN db.seq + 1 ELSE m.ID
    IN  IF id \in DOMAIN db.users
        THEN [db |-> db, id |-> id, err |-> TRUE]
        ELSE [db |-> SaveTags([db EXCEPT !.users = Put(db.users, id, RowOf(m)),
                                         !.updated_at = Put(@, id, db.now),
                                         !.seq = Max(db.seq, id)], id, m.Tags),
              id |-> id, err |-> FALSE]

\* a write of the non-zero fields only (gorm's Updates with a struct), in
\* place of the full-row overwrite of Save
SaveUserNonZero(db, m) ==
    IF m.ID = 0 \/ m.ID \notin DOMAIN db.users THEN CreateUser(db, m)
    ELSE [db |-> [db EXCEPT !.users[m.ID] =
                      [Name |-> IF m.Name = <<>> THEN @.Name ELSE m.Name,
                       Age |-> IF m.Age = 0 THEN @.Age ELSE m.Age,
                       Deleted |-> @.Deleted],
                            !.updated_at[m.ID] = db.now],
          id |-> m.ID, err |-> FALSE]

\* db.Save(model): with a zero key an INSERT; otherwise UPDATE of all columns
\* WHERE id = ? (AND deleted_at IS NULL) and, when that changes no row, an
\* INSERT ... ON CONFLICT UPDATE ALL. Either way row model.ID holds the model.
SaveUser(db, m) ==
    IF m.ID = 0 THEN CreateUser(db, m)
    ELSE [db |-> SaveTags([db EXCEPT !.users = Put(db.users, m.ID, RowOf(m)),
                                     !.updated_at = Put(@, m.ID, db.now),
                                     !.seq = Max(db.seq, m.ID)], m.ID, m.Tags),
          id |-> m.ID, err |-> FALSE]

---------------------------------------------------------------------------
(* The cache shim *)

\* GenerateCacheKey(model, id): "%T:%v" of the model's type and the id; all
\* handlers modelled pass a *models.User, so the id is the key.
GenerateCacheKey(id) == id

\* GetFromCache: no client, a Redis error or no entry is a miss
GetFromCache(rc, ch, key, redisErr) ==
    IF rc = "nil" THEN [hit |-> FALSE, model |-> ZeroUser]
    ELSE IF redisErr \/ key \notin DOMAIN ch
         THEN [hit |-> FALSE, model |-> ZeroUser]
         ELSE [hit |-> TRUE, model |-> ch[key]]

SetToCacheNoNilCheck(rc, ch, key, data, redisErr) ==
    IF redisErr THEN [cache |-> ch, err |-> TRUE]
    ELSE [cache |-> Put(ch, key, data), err |-> FALSE]

\* SetToCache: a no-op returning nil without a client
SetToCache(rc, ch, key, data, redisErr) ==
    IF rc = "nil" THEN [cache |-> ch, err |-> FALSE]
    ELSE IF redisErr THEN [cache |-> ch, err |-> TRUE]
         ELSE [cache |-> Put(ch, key, data), err |-> FALSE]

\* DeleteFromCache: a no-op returning nil without a client
DeleteFromCache(rc, ch, key, redisErr) ==
    IF rc = "nil" THEN [cache |-> ch, err |-> FALSE]
    ELSE IF redisErr THEN [cache |-> ch, err |-> TRUE]
         ELSE [cache |-> Drop(ch, {key}), err |-> FALSE]

---------------------------------------------------------------------------
(* Responses *)

\* gormtool.Response{Code, Message, Data} sent with status Code
Envelope(code, message, data) ==
    [status |-> code, body |-> [code |-> code, message |-> message, data |-> data]]

NoData == <<>>

NoResp == [status |-> 0, body |-> <<>>]
NoReq == [op |-> "none"]

\* what a handler leaves behind; log is the entry it wrote to the Logger
\* ("none": it wrote none)
Out(db, ch, r) == [DB |-> db, cache |-> ch, resp |-> r, log |-> "none"]

\* t.LogOperation(ctx, operation, model, duration, err, fields) on the way
\* out of a handler: Logger.Error when err is not nil, Logger.Info otherwise.
\* In the handlers that log in a defer, err is the variable declared on top
\* of the handler: strconv.Atoi assigns it, while the "if err := ..." of the
\* store and bind calls declare an err of their own.
Logged(err, o) == [o EXCEPT !.log = IF err THEN "error" ELSE "info"]

\* the faults of one request: which store call fails (0: none) of the n it
\* can make, or (with a client, in a handler that calls Redis) whether its
\* Redis calls fail
Faults(rc, n, redis) ==
    {[db |-> i, redis |-> FALSE] : i \in 0..n}
    \cup (IF rc = "set" /\ redis THEN {[db |-> 0, redis |-> TRUE]} ELSE {})

---------------------------------------------------------------------------
(* Request bodies *)

Body(id, name, age, deleted, tags) ==
    [valid |-> TRUE, ID |-> id, Name |-> name, Age |-> age, Deleted |-> deleted,
     Tags |-> tags]

\* a body that is not JSON of the expected shape
Malformed ==
    [valid |-> FALSE, ID |-> Absent, Name |-> Absent, Age |-> Absent,
     Deleted |-> Absent, Tags |-> Absent]

\* the bodies sent to the CRUDTool handlers of SpecLib: a name, or a name
\* under a key ID
LibBodies ==
    {Malformed}
    \cup {Body(Absent, <<n>>, Absent, Absent, Absent) : n \in Names}
    \cup {Body(<<i>>, <<NameB>>, Absent, Absent, Absent) : i \in IDs}

---------------------------------------------------------------------------
(* CRUDTool handlers (src/gormtool/crud.go).  Each operator gives the store,
   the cache and the response a handler leaves, from the client rc, the
   store db, the cache ch, the request and its faults f. *)

GetByIDOut(rc, db, ch, p, preloads, f) ==
    LET a == Atoi(p)
        key == GenerateCacheKey(a.v)
        g == GetFromCache(rc, ch, key, f.redis)
        q == First(db, a.v, preloads)
    IN  Logged(a.err,
        IF a.err THEN Out(db, ch, Envelope(StatusBadRequest, "invalid id", NoData))
        ELSE IF g.hit
             THEN Out(db, ch, Envelope(StatusOK, "query ok (cache)", g.model))
        ELSE IF f.db = 1
             THEN Out(db, ch, Envelope(StatusInternalServerError, "query failed", NoData))
        ELSE IF ~q.found
             THEN Out(db, ch, Envelope(StatusNotFound, "record not found", NoData))
        ELSE Out(db, SetToCache(rc, ch, key, q.model, f.redis).cache,
                 Envelope(StatusOK, "query ok", q.model)))

CreateOut(rc, db, ch, b, f) ==
    LET m == BindJSON(ZeroUser, b)
        c == CreateUser(db, m)
    IN  Logged(FALSE,
        IF ~b.valid
        THEN Out(db, ch, Envelope(StatusBadRequest, "bad parameters", NoData))
        ELSE IF f.db = 1 \/ c.err
             THEN Out(db, ch, Envelope(StatusInternalServerError, "create failed", NoData))
        ELSE Out(c.db, ch, Envelope(StatusCreated, "created", [m EXCEPT !.ID = c.id])))

UpdateByIDOut(rc, db, ch, p, b, f) ==
    LET a == Atoi(p)
        q == First(db, a.v, {})
        m == BindJSON(q.model, b)
        s == SaveUser(db, m)
        \* the returned error of DeleteFromCache is dropped
        d == DeleteFromCache(rc, ch, GenerateCacheKey(a.v), f.redis)
    IN  Logged(a.err,
        IF a.err THEN Out(db, ch, Envelope(StatusBadRequest, "invalid id", NoData))
        ELSE IF f.db = 1
             THEN Out(db, ch, Envelope(StatusInternalServerError, "query failed", NoData))
        ELSE IF ~q.found
             THEN Out(db, ch, Envelope(StatusNotFound, "record not found", NoData))
        ELSE IF ~b.valid
             THEN Out(db, ch, Envelope(StatusBadRequest, "bad parameters", NoData))
        ELSE IF f.db = 2 \/ s.err
             THEN Out(db, ch, Envelope(StatusInternalServerError, "update failed", NoData))
        ELSE Out(s.db, d.cache, Envelope(StatusOK, "updated", [m EXCEPT !.ID = s.id])))

\* SoftDeleteByID without the scope deleted_at IS NULL of gorm's soft delete
SoftDeleteByIDOutUnscoped(rc, db, ch, p, f) ==
    LET a == Atoi(p)
        d == DeleteFromCache(rc, ch, GenerateCacheKey(a.v), f.redis)
    IN  Logged(a.err,
        IF a.err THEN Out(db, ch, Envelope(StatusBadRequest, "invalid id", NoData))
        ELSE IF f.db = 1
             THEN Out(db, ch, Envelope(StatusInternalServerError, "delete failed", NoData))
        ELSE IF a.v \notin DOMAIN db.users
             THEN Out(db, ch, Envelope(StatusNotFound, "record not found", NoData))
        ELSE Out([db EXCEPT !.users[a.v].Deleted = TRUE], d.cache,
                 Envelope(StatusOK, "deleted", NoData)))

SoftDeleteByIDOut(rc, db, ch, p, f) ==
    LET a == Atoi(p)
        d == DeleteFromCache(rc, ch, GenerateCacheKey(a.v), f.redis)
    IN  Logged(a.err,
        IF a.err THEN Out(db, ch, Envelope(StatusBadRequest, "invalid id", NoData))
        ELSE IF f.db = 1
             THEN Out(db, ch, Envelope(StatusInternalServerError, "delete failed", NoData))
        \* UPDATE users SET deleted_at = now WHERE id = ? AND deleted_at IS NULL
        ELSE IF ~(a.v \in DOMAIN db.users /\ ~db.users[a.v].Deleted)
             THEN Out(db, ch, Envelope(StatusNotFound, "record not found", NoData))
        ELSE Out([db EXCEPT !.users[a.v].Deleted = TRUE], d.cache,
                 Envelope(StatusOK, "deleted", NoData)))

RestoreSoftDeleteOut(rc, db, ch, p, f) ==
    LET a == Atoi(p)
    IN  Logged(a.err,
        IF a.err THEN Out(db, ch, Envelope(StatusBadRequest, "invalid id", NoData))
        ELSE IF f.db = 1
             THEN Out(db, ch, Envelope(StatusInternalServerError, "restore failed", NoData))
        \* Unscoped UPDATE users SET deleted_at = NULL, updated_at = now
        \* WHERE id = ?  (Update sets the auto-update-time column as well)
        ELSE IF a.v \notin DOMAIN db.users
             THEN Out(db, ch, Envelope(StatusNotFound, "record not found", NoData))
        ELSE Out([db EXCEPT !.users[a.v].Deleted = FALSE,
                            !.updated_at[a.v] = db.now], ch,
                 Envelope(StatusOK, "restored", NoData)))

\* getRedisStats: a fixed text without a client, else the INFO of Redis or
\* the text of its error
getRedisStats(rc, f) ==
    IF rc = "nil" THEN "Redis not configured"
    ELSE IF f.redis THEN "Redis info unavailable" ELSE "Redis info"

GetMetricsOut(rc, db, ch, f) ==
    Out(db, ch,
        Envelope(StatusOK, "metrics",
                 [database |-> IF f.db = 1 THEN "stats unavailable" ELSE "stats",
                  redis |-> getRedisStats(rc, f)]))

\* db.Unscoped().First(model, id): soft-deleted rows are found as well
FirstUnscoped(db, id, preloads) ==
    IF id \in DOMAIN db.users
    THEN [found |-> TRUE,
          model |-> UserOf(id, db.users[id],
                           IF "Tags" \in preloads THEN TagsOf(db, id) ELSE {})]
    ELSE [found |-> FALSE, model |-> ZeroUser]

GetByIDWithSoftDeleteOut(rc, db, ch, p, preloads, f) ==
    LET a == Atoi(p)
        q == FirstUnscoped(db, a.v, preloads)
    IN  Logged(a.err,
        IF a.err THEN Out(db, ch, Envelope(StatusBadRequest, "invalid id", NoData))
        ELSE IF f.db = 1
             THEN Out(db, ch, Envelope(StatusInternalServerError, "query failed", NoData))
        ELSE IF ~q.found
             THEN Out(db, ch, Envelope(StatusNotFound, "record not found", NoData))
        ELSE Out(db, ch, Envelope(StatusOK, "query ok", q.model)))

\* DELETE FROM users WHERE id = ?: the row goes whatever its deleted_at; the
\* rows of user_tags stay (no cascade is selected)
\* a Delete without Unscoped: rows already soft-deleted are out of its scope
HardDeleteScoped(db, id) ==
    IF id \in DOMAIN db.users /\ db.users[id].Deleted THEN db
    ELSE [db EXCEPT !.users = Drop(@, {id}), !.updated_at = Drop(@, {id})]

HardDelete(db, id) ==
    [db EXCEPT !.users = Drop(@, {id}), !.updated_at = Drop(@, {id})]

HardDeleteByIDOut(rc, db, ch, p, f) ==
    LET a == Atoi(p)
        \* the returned error of DeleteFromCache is dropped
        d == DeleteFromCache(rc, ch, GenerateCacheKey(a.v), f.redis)
    IN  Logged(a.err,
        IF a.err THEN Out(db, ch, Envelope(StatusBadRequest, "invalid id", NoData))
        ELSE IF f.db = 1
             THEN Out(db, ch, Envelope(StatusInternalServerError, "delete failed", NoData))
        ELSE IF a.v \notin DOMAIN db.users
             THEN Out(db, ch, Envelope(StatusNotFound, "record not found", NoData))
        ELSE Out(HardDelete(db, a.v), d.cache,
                 Envelope(StatusOK, "deleted for good", NoData)))

---------------------------------------------------------------------------
(* SpecLib: the CRUDTool handlers, with or without Redis *)

\* a handler ran: its outcome becomes the state, the request is recorded
Serve(o, r) ==
    /\ o.DB.seq <= MaxID
    /\ DB' = o.DB
    /\ cache' = o.cache
    /\ resp' = o.resp
    /\ log' = o.log
    /\ req' = r
    /\ UNCHANGED RedisClient

InitLib ==
    /\ DB = EmptyDB
    /\ cache = EmptyFn
    /\ RedisClient \in {"nil", "set"}
    /\ req = NoReq
    /\ resp = NoResp
    /\ log = "none"

GetByID ==
    \E p \in PathParams, f \in Faults(RedisClient, 1, TRUE) :
        Serve(GetByIDOut(RedisClient, DB, cache, p, {}, f),
              [op |-> "GetByID", id |-> p, f |-> f])

Create ==
    \E b \in LibBodies, f \in Faults(RedisClient, 1, FALSE) :
        Serve(CreateOut(RedisClient, DB, cache, b, f),
              [op |-> "Create", body |-> b, f |-> f])

UpdateByID ==
    \E p \in PathParams, b \in LibBodies, f \in Faults(RedisClient, 2, TRUE) :
        Serve(UpdateByIDOut(RedisClient, DB, cache, p, b, f),
              [op |-> "UpdateByID", id |-> p, body |-> b, f |-> f])

SoftDeleteByID ==
    \E p \in PathParams, f \in Faults(RedisClient, 1, TRUE) :
        Serve(SoftDeleteByIDOut(RedisClient, DB, cache, p, f),
              [op |-> "SoftDeleteByID", id |-> p, f |-> f])

RestoreSoftDelete ==
    \E p \in PathParams, f \in Faults(RedisClient, 1, FALSE) :
        Serve(RestoreSoftDeleteOut(RedisClient, DB, cache, p, f),
              [op |-> "RestoreSoftDelete", id |-> p, f |-> f])

GetMetrics ==
    \E f \in Faults(RedisClient, 1, TRUE) :
        Serve(GetMetricsOut(RedisClient, DB, cache, f),
              [op |-> "GetMetrics", f |-> f])

\* an entry reaches its TTL (CacheTTL, 5 minutes) and Redis drops it
CacheExpire ==
    \E k \in DOMAIN cache :
        /\ cache' = Drop(cache, {k})
        /\ UNCHANGED <<DB, RedisClient, req, resp, log>>

NextLib ==
    \/ GetByID
    \/ Create
    \/ UpdateByID
    \/ SoftDeleteByID
    \/ RestoreSoftDelete
    \/ GetMetrics
    \/ CacheExpire

SpecLib == InitLib /\ [][NextLib]_vars

---------------------------------------------------------------------------
(* Go's int (64 bits) on the pager's path.  A value is hi * 2^62 + lo modulo
   2^64 with hi in 0..3 and lo a small integer, so that the products the
   pager forms are exact modulo 2^64. *)

I64(n) == [hi |-> 0, lo |-> n]

\* 2^62 * k + n
Big(k, n) == [hi |-> k % 4, lo |-> n]

MaxInt64 == Big(2, -1)

\* the sign bit: the value lies in the upper half of 0..2^64-1
I64Negative(x) == IF x.lo >= 0 THEN x.hi \in {2, 3} ELSE x.hi \in {3, 0}

I64IsZero(x) == x.hi = 0 /\ x.lo = 0

\* x < 1
I64LessThanOne(x) == I64Negative(x) \/ I64IsZero(x)

\* x - y for a small y, and x * y, both modulo 2^64
I64Sub(x, n) == [x EXCEPT !.lo = @ - n]
I64Mul(x, y) == [hi |-> (x.hi * y.lo + y.hi * x.lo) % 4, lo |-> x.lo * y.lo]

\* 0 <= x and x is one of the small values
I64Small(x) == x.hi = 0 /\ x.lo >= 0

---------------------------------------------------------------------------
(* Query parameters and the query builder *)

\* a query parameter as sent: absent, a text that is no number, a number of
\* the int range, or a number beyond it
QAbsent == [kind |-> "absent", v |-> I64(0)]
QText == [kind |-> "text", v |-> I64(0)]
QNum(x) == [kind |-> "num", v |-> x]
QRange == [kind |-> "range", v |-> MaxInt64]

DefaultPage == 1
DefaultPageSize == 10

\* c.DefaultQuery(key, default): the default only when the key is absent
DefaultQuery(p, default) == IF p.kind = "absent" THEN QNum(I64(default)) ELSE p

\* strconv.Atoi on a query parameter, its error dropped: 0 for a text, the
\* largest int for a number beyond the range
AtoiQuery(p) == IF p.kind = "text" THEN I64(0) ELSE p.v

\* condition values (interface{}): a number, a string, a []interface{} of
\* numbers (what JSON decodes a list to), a typed Go slice such as []int
NumV(n) == [t |-> "num", n |-> n, s |-> <<>>, l |-> <<>>]
StrV(str) == [t |-> "str", n |-> 0, s |-> str, l |-> <<>>]
ListV(l) == [t |-> "list", n |-> 0, s |-> <<>>, l |-> l]
IntsV(l) == [t |-> "ints", n |-> 0, s |-> <<>>, l |-> l]

Cond(field, operator, value) == [Field |-> field, Operator |-> operator, Value |-> value]
Sort(field, direction) == [Field |-> field, Direction |-> direction]
QueryBuilder(conds, sorts, preloads) ==
    [Conditions |-> conds, Sorts |-> sorts, Preloads |-> preloads]

CompareOps == {"=", "!=", ">", "<", ">=", "<="}

\* the clause BuildQuery adds for one condition: none, or one db.Where
WhereOf(cond) ==
    CASE cond.Operator \in CompareOps ->
            <<[sql |-> cond.Operator, field |-> cond.Field, args |-> <<cond.Value>>]>>
      [] cond.Operator = "LIKE" ->
            <<[sql |-> "LIKE", field |-> cond.Field,
               args |-> <<StrV(<<"%">> \o cond.Value.s \o <<"%">>)>>]>>
      [] cond.Operator = "IN" ->
            <<[sql |-> "IN", field |-> cond.Field, args |-> <<cond.Value>>]>>
      [] cond.Operator = "NOT IN" ->
            <<[sql |-> "NOT IN", field |-> cond.Field, args |-> <<cond.Value>>]>>
      [] cond.Operator = "BETWEEN" ->
            IF cond.Value.t = "list" /\ Len(cond.Value.l) = 2
            THEN <<[sql |-> "BETWEEN", field |-> cond.Field,
                    args |-> <<NumV(cond.Value.l[1]), NumV(cond.Value.l[2])>>]>>
            ELSE <<>>
      [] OTHER -> <<>>

\* cond.Value.(string) panics on a value that is no string
Panics(cond) == cond.Operator = "LIKE" /\ cond.Value.t # "str"

RECURSIVE WheresOf(_)
WheresOf(conds) ==
    IF conds = <<>> THEN <<>> ELSE WhereOf(Head(conds)) \o WheresOf(Tail(conds))

BuildQueryRejecting(qb) ==
    [panic |-> \E i \in DOMAIN qb.Conditions :
                  Panics(qb.Conditions[i]) \/ WhereOf(qb.Conditions[i]) = <<>>,
     wheres |-> WheresOf(qb.Conditions), orders |-> qb.Sorts,
     preloads |-> qb.Preloads]

\* BuildQuery(db, qb): the Where, Order and Preload clauses added to db, in
\* the order of the lists; or the panic of the type assertion
BuildQuery(qb) ==
    IF \E i \in DOMAIN qb.Conditions : Panics(qb.Conditions[i])
    THEN [panic |-> TRUE, wheres |-> <<>>, orders |-> <<>>, preloads |-> <<>>]
    ELSE [panic |-> FALSE, wheres |-> WheresOf(qb.Conditions),
          orders |-> qb.Sorts, preloads |-> qb.Preloads]

---------------------------------------------------------------------------
(* The store's evaluation of a built query *)

Columns == {"id", "name", "age"}

\* the value of a column of row id
Col(db, id, field) ==
    CASE field = "id" -> NumV(id)
      [] field = "name" -> StrV(db.users[id].Name)
      [] field = "age" -> NumV(db.users[id].Age)

\* SQL LIKE: % matches any run of characters, _ any one character
RECURSIVE Like(_, _)
Like(str, pat) ==
    IF pat = <<>> THEN str = <<>>
    ELSE IF Head(pat) = "%"
         THEN Like(str, Tail(pat)) \/ (str # <<>> /\ Like(Tail(str), pat))
    ELSE /\ str # <<>>
         /\ Head(pat) = "_" \/ Head(pat) = Head(str)
         /\ Like(Tail(str), Tail(pat))

\* a comparison of two values of one type (strings only for = and !=)
Compare(op, x, y) ==
    CASE op = "=" -> x = y
      [] op = "!=" -> x # y
      [] op = ">" -> x.n > y.n
      [] op = "<" -> x.n < y.n
      [] op = ">=" -> x.n >= y.n
      [] op = "<=" -> x.n <= y.n

\* the values "IN (?)" is expanded to: the elements of a slice, NULL alone
\* for an empty slice, the value itself otherwise
InList(v) ==
    IF v.t \in {"list", "ints"}
    THEN [null |-> v.l = <<>>, vals |-> {NumV(v.l[i]) : i \in DOMAIN v.l}]
    ELSE [null |-> FALSE, vals |-> {v}]

\* whether the WHERE clause w is true of row id (NULL selects no row)
Holds(db, id, w) ==
    LET c == Col(db, id, w.field)
    IN  CASE w.sql \in CompareOps -> Compare(w.sql, c, w.args[1])
          [] w.sql = "LIKE" -> Like(c.s, w.args[1].s)
          [] w.sql = "IN" -> ~InList(w.args[1]).null /\ c \in InList(w.args[1]).vals
          [] w.sql = "NOT IN" ->
                ~InList(w.args[1]).null /\ c \notin InList(w.args[1]).vals
          [] w.sql = "BETWEEN" -> c.n >= w.args[1].n /\ c.n <= w.args[2].n

\* the statement names a column the table does not have
BadColumn(b) ==
    \/ \E i \in DOMAIN b.wheres : b.wheres[i].field \notin Columns
    \/ \E i \in DOMAIN b.orders : b.orders[i].Field \notin Columns

\* models.User has the one relation Tags: Find fails on any other preload
BadPreload(b) == \E i \in DOMAIN b.preloads : b.preloads[i] # "Tags"

\* the ids the WHERE clauses select, soft-deleted rows left out
Selected(db, wheres) ==
    {id \in DOMAIN db.users :
        /\ ~db.users[id].Deleted
        /\ \A i \in DOMAIN wheres : Holds(db, id, wheres[i])}

\* row i comes before row j under ORDER BY orders (ties and no order: by id)
RECURSIVE Before(_, _, _, _)
Before(db, i, j, orders) ==
    IF orders = <<>> THEN i < j
    ELSE LET o == Head(orders)
             x == Col(db, i, o.Field).n
             y == Col(db, j, o.Field).n
         IN  IF x = y THEN Before(db, i, j, Tail(orders))
             ELSE IF o.Direction = "DESC" THEN x > y ELSE x < y

\* the selected ids in the order of the statement
Ordered(db, ids, orders) ==
    [k \in 1..Cardinality(ids) |->
        CHOOSE i \in ids :
            Cardinality({j \in ids : Before(db, j, i, orders)}) = k - 1]

Min(a, b) == IF a <= b THEN a ELSE b

\* LIMIT limit OFFSET offset over a list: gorm writes OFFSET only when the
\* offset is above 0
LimitOffsetWrapped(list, limit, offset) ==
    LET n == Len(list)
        from == IF I64LessThanOne(offset) THEN 0
                ELSE IF I64Small(offset) THEN Min(offset.lo, n) ELSE n
        upto == IF I64Small(limit) THEN Min(from + limit.lo, n) ELSE n
    IN  SubSeq(list, from + 1, upto)

\* db.Limit(pageSize).Offset(offset).Find(models)
Find(db, b, limit, offset) ==
    LET ids == LimitOffsetWrapped(Ordered(db, Selected(db, b.wheres), b.orders),
                                  limit, offset)
    IN  [k \in DOMAIN ids |->
            UserOf(ids[k], db.users[ids[k]],
                   IF "Tags" \in Range(b.preloads) THEN TagsOf(db, ids[k]) ELSE {})]

\* db.Model(models).Count(&total)
Count(db, b) == Cardinality(Selected(db, b.wheres))

\* offset := (page - 1) * pageSize, in Go's int
PageOffset(page, pageSize) == I64Mul(I64Sub(page, 1), pageSize)

PageSizeOfUnchecked(query) ==
    AtoiQuery(DefaultQuery(query.pagesize, 10))

\* the page and page size GetByQueryBuilder uses for the query parameters
PageOf(query) ==
    LET page == AtoiQuery(DefaultQuery(query.page, DefaultPage))
    IN  IF I64LessThanOne(page) THEN I64(DefaultPage) ELSE page

PageSizeOf(query) ==
    LET pageSize == AtoiQuery(DefaultQuery(query.pagesize, DefaultPageSize))
    IN  IF I64LessThanOne(pageSize) THEN I64(DefaultPageSize) ELSE pageSize

\* gormtool.Response with its Page
PagedEnvelope(data, page, pageSize, total) ==
    [status |-> StatusOK,
     body |-> [code |-> StatusOK, message |-> "query ok", data |-> data,
               page |-> [page |-> page, pageSize |-> pageSize, total |-> total]]]

\* the panic leaves the handler; gin's Recovery answers 500 without a body
Panicked == [status |-> StatusInternalServerError, body |-> [panic |-> TRUE]]

GetByQueryBuilderOut(rc, db, ch, query, qb, f) ==
    LET page == PageOf(query)
        pageSize == PageSizeOf(query)
        b == BuildQuery(qb)
        offset == PageOffset(page, pageSize)
    IN  Logged(FALSE,
        IF b.panic THEN Out(db, ch, Panicked)
        ELSE IF f.db = 1 \/ f.db = 2 \/ BadColumn(b) \/ BadPreload(b)
             THEN Out(db, ch, Envelope(StatusInternalServerError, "query failed", NoData))
        ELSE Out(db, ch, PagedEnvelope(Find(db, b, pageSize, offset),
                                       page, pageSize, Count(db, b))))

---------------------------------------------------------------------------
(* The transaction wrapper and the routes of src/main.go *)

\* gin.H{...} sent with a status
Reply(status, body) == [status |-> status, body |-> body]

\* what the function given to WithTransaction returns: the store as its
\* statements left it, and its error
TxResult(db, err) == [db |-> db, err |-> err]

WithTransactionNoRollback(db, r, commitErr) ==
    IF r.err THEN TxResult(r.db, TRUE)
    ELSE IF commitErr THEN TxResult(db, TRUE)
    ELSE TxResult(r.db, FALSE)

\* WithTransaction: gorm's Transaction rolls back when fn (or the commit)
\* returns an error and commits otherwise; the error goes to the caller.
WithTransaction(db, r, commitErr) ==
    IF r.err \/ commitErr THEN TxResult(db, TRUE)
    ELSE TxResult(r.db, FALSE)

\* the function of createUserWithEverything: user, then profile, then tags;
\* store call n of the request fails when f.db = n
CreateCascade(db, user, tags, f) ==
    LET c == CreateUser(db, user)
        withProfile == [c.db EXCEPT !.profiles = @ \cup {c.id}]
    IN  IF f.db = 1 \/ c.err THEN TxResult(db, TRUE)
        ELSE IF f.db = 2 THEN TxResult(c.db, TRUE)
        ELSE IF f.db = 3 THEN TxResult(withProfile, TRUE)
        ELSE TxResult(SaveTags(withProfile, c.id, tags), FALSE)

\* POST /users. The payload's key "tags" fills req.Tags, the other keys the
\* embedded models.User.
createUserWithEverythingOut(rc, db, ch, b, f) ==
    LET user == BindJSON(ZeroUser, b.user)
        t == WithTransaction(db, CreateCascade(db, user, b.tags, f), f.db = 4)
    IN  IF ~b.valid
        THEN Out(db, ch, Reply(StatusBadRequest, [msg |-> "bind error"]))
        ELSE IF t.err
             THEN Out(t.db, ch, Reply(StatusInternalServerError, [msg |-> "store error"]))
        ELSE Out(t.db, ch,
                 Reply(StatusCreated,
                       [data |-> [user EXCEPT !.ID = CreateUser(db, user).id,
                                              !.Tags = @ \cup b.tags]]))

\* GET /users/:id: GetByID without preloads
getUserByIDOut(rc, db, ch, p, f) == GetByIDOut(rc, db, ch, p, {}, f)

\* Association("Tags").Replace(tags): the user's join rows become those of tags
ReplaceTags(db, id, tags) ==
    [db EXCEPT !.tags = @ \cup tags,
               !.user_tags = {x \in @ : x[1] # id} \cup {<<id, t>> : t \in tags}]

\* the function of updateUserWithTags: Save, then Replace
UpdateCascade(db, user, f) ==
    LET s == SaveUser(db, user)
    IN  IF f.db = 2 \/ s.err THEN TxResult(db, TRUE)
        ELSE IF f.db = 3 THEN TxResult(s.db, TRUE)
        ELSE TxResult(ReplaceTags(s.db, s.id, user.Tags), FALSE)

\* PUT /users/:id. First takes the raw path parameter: a parameter that is no
\* number becomes a WHERE text the store rejects, and every error of First is
\* answered 404.
updateUserWithTagsOut(rc, db, ch, p, b, f) ==
    LET q == First(db, p.n, {})
        user == BindJSON(q.model, b)
        t == WithTransaction(db, UpdateCascade(db, user, f), f.db = 4)
        d == DeleteFromCache(rc, ch, GenerateCacheKey(user.ID), f.redis)
    IN  IF p.kind # "num" \/ f.db = 1 \/ ~q.found
        THEN Out(db, ch, Reply(StatusNotFound, [msg |-> "store error"]))
        ELSE IF ~b.valid
             THEN Out(db, ch, Reply(StatusBadRequest, [msg |-> "bind error"]))
        ELSE IF t.err
             THEN Out(t.db, ch, Reply(StatusInternalServerError, [msg |-> "store error"]))
        ELSE Out(t.db, d.cache, Reply(StatusOK, [data |-> user]))

\* DELETE /users/:id and PUT /users/:id/restore
softDeleteUserOut(rc, db, ch, p, f) == SoftDeleteByIDOut(rc, db, ch, p, f)
restoreUserOut(rc, db, ch, p, f) == RestoreSoftDeleteOut(rc, db, ch, p, f)

\* tx.Unscoped().Delete(&models.User{}, ids): DELETE FROM users WHERE id IN
\* ids; without ids there is no WHERE and gorm refuses (ErrMissingWhereClause)
HardDeleteUsers(db, ids, f) ==
    IF f.db = 1 \/ ids = <<>> THEN TxResult(db, TRUE)
    ELSE TxResult([db EXCEPT !.users = Drop(@, Range(ids)),
                             !.updated_at = Drop(@, Range(ids))], FALSE)

\* DELETE /users/batch/hard: "affected" is the length of the list sent
batchHardDeleteOut(rc, db, ch, b, f) ==
    LET t == WithTransaction(db, HardDeleteUsers(db, b.ids, f), f.db = 2)
    IN  IF ~b.valid
        THEN Out(db, ch, Reply(StatusBadRequest, [msg |-> "bind error"]))
        ELSE IF t.err
             THEN Out(t.db, ch, Reply(StatusInternalServerError, [msg |-> "store error"]))
        ELSE Out(t.db, ch, Reply(StatusOK, [affected |-> Len(b.ids)]))

\* GET /users: GetByQueryBuilder with an empty QueryBuilder
getAllUsersOut(rc, db, ch, query, f) ==
    GetByQueryBuilderOut(rc, db, ch, query, QueryBuilder(<<>>, <<>>, <<>>), f)

---------------------------------------------------------------------------
(* CRUDTool handlers with relations (src/gormtool/crud.go).  These log by
   explicit LogOperation calls, with the error at hand. *)

\* the loop over relations inside the transaction: a name that is no field
\* of the model is an error, the field Tags is Replaced; the store is given
\* as the statements left it
RECURSIVE ReplaceRelations(_, _, _, _, _)
ReplaceRelations(db, id, m, relations, failed) ==
    IF relations = <<>> THEN TxResult(db, FALSE)
    ELSE IF Head(relations) # "Tags" \/ failed THEN TxResult(db, TRUE)
    ELSE ReplaceRelations(ReplaceTags(db, id, m.Tags), id, m, Tail(relations), failed)

GetByIDWithRelationsOut(rc, db, ch, p, relations, f) ==
    LET a == Atoi(p)
        q == First(db, a.v, Range(relations))
    IN  IF a.err
        THEN Logged(TRUE, Out(db, ch, Envelope(StatusBadRequest, "invalid id", NoData)))
        ELSE IF f.db = 1 \/ (q.found /\ Range(relations) \ {"Tags"} # {})
             THEN Logged(TRUE, Out(db, ch, Envelope(StatusInternalServerError,
                                                    "query failed", NoData)))
        ELSE IF ~q.found
             THEN Logged(TRUE, Out(db, ch, Envelope(StatusNotFound,
                                                    "record not found", NoData)))
        ELSE Logged(FALSE, Out(db, ch, Envelope(StatusOK, "query ok", q.model)))

\* store calls: 1 Create, 2 Replace, 3 commit
CreateWithRelationsOut(rc, db, ch, b, relations, f) ==
    LET m == BindJSON(ZeroUser, b)
        c == CreateUser(db, m)
        r == IF f.db = 1 \/ c.err THEN TxResult(db, TRUE)
             ELSE ReplaceRelations(c.db, c.id, m, relations, f.db = 2)
        t == WithTransaction(db, r, f.db = 3)
    IN  IF ~b.valid
        THEN Logged(TRUE, Out(db, ch, Envelope(StatusBadRequest, "bad parameters", NoData)))
        ELSE IF t.err
             THEN Logged(TRUE, Out(t.db, ch, Envelope(StatusInternalServerError,
                                                      "create failed", NoData)))
        ELSE Logged(FALSE, Out(t.db, ch, Envelope(StatusCreated, "created",
                                                  [m EXCEPT !.ID = c.id])))

\* store calls: 1 First, 2 Save, 3 Replace, 4 commit
UpdateWithRelationsOut(rc, db, ch, p, b, relations, f) ==
    LET a == Atoi(p)
        q == First(db, a.v, {})
        m == BindJSON(q.model, b)
        s == SaveUser(db, m)
        r == IF f.db = 2 \/ s.err THEN TxResult(db, TRUE)
             ELSE ReplaceRelations(s.db, s.id, m, relations, f.db = 3)
        t == WithTransaction(db, r, f.db = 4)
        \* the returned error of DeleteFromCache is dropped
        d == DeleteFromCache(rc, ch, GenerateCacheKey(a.v), f.redis)
    IN  IF a.err
        THEN Logged(TRUE, Out(db, ch, Envelope(StatusBadRequest, "invalid id", NoData)))
        ELSE IF f.db = 1
             THEN Logged(TRUE, Out(db, ch, Envelope(StatusInternalServerError,
                                                    "query failed", NoData)))
        ELSE IF ~q.found
             THEN Logged(TRUE, Out(db, ch, Envelope(StatusNotFound,
                                                    "record not found", NoData)))
        ELSE IF ~b.valid
             THEN Logged(TRUE, Out(db, ch, Envelope(StatusBadRequest,
                                                    "bad parameters", NoData)))
        ELSE IF t.err
             THEN Logged(TRUE, Out(t.db, ch, Envelope(StatusInternalServerError,
                                                      "update failed", NoData)))
        ELSE Logged(FALSE, Out(t.db, d.cache, Envelope(StatusOK, "updated", m)))

\* store calls: 1 First, 2 Association.Find
GetRelatedOut(rc, db, ch, p, associationName, f) ==
    LET a == Atoi(p)
        q == First(db, a.v, {})
    IN  IF a.err
        THEN Logged(TRUE, Out(db, ch, Envelope(StatusBadRequest, "invalid id", NoData)))
        ELSE IF f.db = 1
             THEN Logged(TRUE, Out(db, ch, Envelope(StatusInternalServerError,
                                                    "query failed", NoData)))
        ELSE IF ~q.found
             THEN Logged(TRUE, Out(db, ch, Envelope(StatusNotFound,
                                                    "record not found", NoData)))
        ELSE IF f.db = 2 \/ associationName # "Tags"
             THEN Logged(TRUE, Out(db, ch, Envelope(StatusInternalServerError,
                                                    "related failed", NoData)))
        ELSE Logged(FALSE, Out(db, ch, Envelope(StatusOK, "related ok",
                                                TagsOf(db, a.v))))

\* the body of AddRelation: a models.Tag
TagBody(name) == [valid |-> TRUE, Name |-> name]
MalformedTag == [valid |-> FALSE, Name |-> ""]

\* t.DB.Model(model).Association(name).Append(tag), on the CRUDTool's own
\* handle and not on a transaction: the tag row is inserted (store call 2),
\* then the row of user_tags (store call 3), each statement committed by
\* itself.  The cache key of the user is not deleted.
AddRelationOut(rc, db, ch, p, b, associationName, f) ==
    LET a == Atoi(p)
        q == First(db, a.v, {})
        withTag == [db EXCEPT !.tags = @ \cup {b.Name}]
    IN  IF a.err
        THEN Logged(TRUE, Out(db, ch, Envelope(StatusBadRequest, "invalid id", NoData)))
        ELSE IF ~b.valid
             THEN Logged(TRUE, Out(db, ch, Envelope(StatusBadRequest,
                                                    "bad parameters", NoData)))
        ELSE IF f.db = 1
             THEN Logged(TRUE, Out(db, ch, Envelope(StatusInternalServerError,
                                                    "query failed", NoData)))
        ELSE IF ~q.found
             THEN Logged(TRUE, Out(db, ch, Envelope(StatusNotFound,
                                                    "record not found", NoData)))
        ELSE IF f.db = 2 \/ associationName # "Tags"
             THEN Logged(TRUE, Out(db, ch, Envelope(StatusInternalServerError,
                                                    "add relation failed", NoData)))
        ELSE IF f.db = 3
             THEN Logged(TRUE, Out(withTag, ch, Envelope(StatusInternalServerError,
                                                         "add relation failed", NoData)))
        ELSE Logged(FALSE, Out(SaveTags(db, a.v, {b.Name}), ch,
                               Envelope(StatusOK, "relation added", NoData)))

---------------------------------------------------------------------------
(* CRUDTool.BatchOperation (src/gormtool/crud.go) *)

\* a bound slice of users: each element of the body bound onto a zero User
BindAll(bodies) == [i \in DOMAIN bodies |-> BindJSON(ZeroUser, bodies[i])]

\* t.DB.Create(models): one INSERT of all rows in gorm's default transaction;
\* an empty slice is gorm.ErrEmptySlice, a duplicate key fails the statement
RECURSIVE CreateAll(_, _)
CreateAll(db, ms) ==
    IF ms = <<>> THEN [db |-> db, err |-> FALSE]
    ELSE LET c == CreateUser(db, Head(ms))
         IN  IF c.err THEN [db |-> db, err |-> TRUE] ELSE CreateAll(c.db, Tail(ms))

\* t.DB.Save(models) on a slice: INSERT ... ON CONFLICT UPDATE ALL of every
\* element
RECURSIVE SaveAll(_, _)
SaveAll(db, ms) ==
    IF ms = <<>> THEN [db |-> db, err |-> FALSE]
    ELSE LET c == SaveUser(db, Head(ms))
         IN  IF c.err THEN [db |-> db, err |-> TRUE] ELSE SaveAll(c.db, Tail(ms))

\* the primary keys a Delete reads from the slice: the non-zero ones
KeysOf(ms) == {ms[i].ID : i \in DOMAIN ms} \ {0}

\* the store call of one verb: the store it leaves, its error and its
\* RowsAffected.  A Delete that names no key has no WHERE clause and fails
\* (gorm.ErrMissingWhereClause).
BatchStore(db, operation, ms) ==
    LET keys == KeysOf(ms)
        active == {k \in keys : k \in DOMAIN db.users /\ ~db.users[k].Deleted}
        there == keys \cap DOMAIN db.users
        none == [db |-> db, err |-> TRUE, rows |-> 0]
    IN  CASE operation = "create" ->
               IF ms = <<>> THEN none
               ELSE LET c == CreateAll(db, ms)
                    IN  [db |-> IF c.err THEN db ELSE c.db, err |-> c.err,
                         rows |-> IF c.err THEN 0 ELSE Len(ms)]
          [] operation = "update" ->
               IF ms = <<>> THEN none
               ELSE LET c == SaveAll(db, ms)
                    IN  [db |-> IF c.err THEN db ELSE c.db, err |-> c.err,
                         rows |-> IF c.err THEN 0 ELSE Len(ms)]
          [] operation = "soft_delete" ->
               IF keys = {} THEN none
               ELSE [db |-> [db EXCEPT !.users =
                                [k \in DOMAIN @ |->
                                    IF k \in active THEN [@[k] EXCEPT !.Deleted = TRUE]
                                    ELSE @[k]]],
                     err |-> FALSE, rows |-> Cardinality(active)]
          [] operation = "hard_delete" ->
               IF keys = {} THEN none
               ELSE [db |-> [db EXCEPT !.users = Drop(@, there),
                                       !.updated_at = Drop(@, there)],
                     err |-> FALSE, rows |-> Cardinality(there)]

BatchVerbs == {"create", "update", "soft_delete", "hard_delete"}

\* BatchOperation(c, models, operation): no call of the cache; the deferred
\* log sees the err declared on top, which no statement assigns
BatchOperationOut(rc, db, ch, operation, b, f) ==
    LET r == BatchStore(db, operation, BindAll(b.models))
    IN  Logged(FALSE,
        IF ~b.valid
        THEN Out(db, ch, Envelope(StatusBadRequest, "bad parameters", NoData))
        ELSE IF operation \notin BatchVerbs
             THEN Out(db, ch, Envelope(StatusBadRequest, "unsupported batch operation", NoData))
        ELSE IF f.db = 1 \/ r.err
             THEN Out(db, ch, Envelope(StatusInternalServerError, "batch failed", NoData))
        ELSE Out(r.db, ch, Envelope(StatusOK, "batch ok", r.rows)))

---------------------------------------------------------------------------
(* Spec: the application of src/main.go *)

\* the longest id list sent to DELETE /users/batch/hard
MaxBatch == 2

\* POST /users payloads: a name, with or without tags
Payloads ==
    {[valid |-> FALSE, user |-> Malformed, tags |-> {}]}
    \cup {[valid |-> TRUE, user |-> Body(Absent, <<NameA>>, Absent, Absent, Absent),
           tags |-> ts] : ts \in SUBSET TagNames}

\* PUT /users/:id bodies: a name, without or with the key Tags
PutBodies ==
    {Malformed}
    \cup {Body(Absent, <<NameB>>, Absent, Absent, ts) : ts \in Opt({TagNames})}

\* DELETE /users/batch/hard bodies: id lists with and without repeated ids,
\* in ascending order (WHERE id IN ids does not read the order)
IDLists ==
    {l \in UNION {[1..n -> IDs] : n \in 0..MaxBatch} :
        \A i \in 1..(Len(l) - 1) : l[i] <= l[i + 1]}
BatchBodies ==
    {[valid |-> FALSE, ids |-> <<>>]} \cup {[valid |-> TRUE, ids |-> l] : l \in IDLists}

\* the query string of a list request: page, pagesize, and the key pageSize
\* that GetByQueryBuilder does not read
Query(page, pagesize, pageSize) ==
    [page |-> page, pagesize |-> pagesize, pageSize |-> pageSize]

\* GET /users query strings
ListQueries ==
    {Query(p, s, QAbsent) : p \in {QAbsent, QNum(I64(2))}, s \in {QAbsent, QNum(I64(1))}}

\* main.go builds the CRUDTool without Redis: NewCRUDTool(db, nil, nil)
Init ==
    /\ DB = EmptyDB
    /\ cache = EmptyFn
    /\ RedisClient = "nil"
    /\ req = NoReq
    /\ resp = NoResp
    /\ log = "none"

createUserWithEverything ==
    \E b \in Payloads, f \in Faults(RedisClient, 4, FALSE) :
        Serve(createUserWithEverythingOut(RedisClient, DB, cache, b, f),
              [op |-> "createUserWithEverything", body |-> b, f |-> f])

getAllUsers ==
    \E q \in ListQueries, f \in Faults(RedisClient, 2, FALSE) :
        Serve(getAllUsersOut(RedisClient, DB, cache, q, f),
              [op |-> "getAllUsers", query |-> q, f |-> f])

getUserByID ==
    \E p \in PathParams, f \in Faults(RedisClient, 1, TRUE) :
        Serve(getUserByIDOut(RedisClient, DB, cache, p, f),
              [op |-> "getUserByID", id |-> p, f |-> f])

updateUserWithTags ==
    \E p \in PathParams, b \in PutBodies, f \in Faults(RedisClient, 4, TRUE) :
        Serve(updateUserWithTagsOut(RedisClient, DB, cache, p, b, f),
              [op |-> "updateUserWithTags", id |-> p, body |-> b, f |-> f])

softDeleteUser ==
    \E p \in PathParams, f \in Faults(RedisClient, 1, TRUE) :
        Serve(softDeleteUserOut(RedisClient, DB, cache, p, f),
              [op |-> "softDeleteUser", id |-> p, f |-> f])

restoreUser ==
    \E p \in PathParams, f \in Faults(RedisClient, 1, FALSE) :
        Serve(restoreUserOut(RedisClient, DB, cache, p, f),
              [op |-> "restoreUser", id |-> p, f |-> f])

batchHardDelete ==
    \E b \in BatchBodies, f \in Faults(RedisClient, 2, FALSE) :
        Serve(batchHardDeleteOut(RedisClient, DB, cache, b, f),
              [op |-> "batchHardDelete", body |-> b, f |-> f])

Next ==
    \/ createUserWithEverything
    \/ getAllUsers
    \/ getUserByID
    \/ updateUserWithTags
    \/ softDeleteUser
    \/ restoreUser
    \/ batchHardDelete
    \/ GetMetrics

Spec == Init /\ [][Next]_vars

---------------------------------------------------------------------------
(* SpecQuery: GetByQueryBuilder applied once to a table drawn in Init *)

Ages == {1, 2, 3}

\* the tables of users with ids in IDs: any id present or not, any name and
\* age, soft-deleted or not
Tables ==
    UNION {[S -> {Row(n, a, d) : n \in Names, a \in Ages, d \in BOOLEAN}] :
           S \in SUBSET IDs}

\* the conditions of one comparison operator, the value of the column's type
CompareConds ==
    {Cond("age", op, NumV(2)) : op \in CompareOps}
    \cup {Cond("name", op, StrV(NameA)) : op \in {"=", "!="}}
    \cup {Cond("id", "=", NumV(1)), Cond("nope", "=", NumV(1))}

\* LIKE with strings (plain, empty, holding a wildcard) and with a number
LikeConds ==
    {Cond("name", "LIKE", v) :
        v \in {StrV(<<"b">>), StrV(NameA), StrV(NameB), StrV(<<>>), StrV(<<"_">>),
               NumV(5)}}

\* IN and NOT IN with []interface{} and []int lists, the empty list included
InConds ==
    {Cond("age", op, v) :
        op \in {"IN", "NOT IN"},
        v \in {ListV(<<>>), ListV(<<1>>), ListV(<<1, 3>>), IntsV(<<2>>)}}

\* BETWEEN with two bounds
BetweenConds ==
    {Cond("age", "BETWEEN", v) :
        v \in {ListV(<<1, 2>>), ListV(<<2, 3>>), ListV(<<2, 2>>), ListV(<<3, 1>>),
               IntsV(<<1, 2>>)}}

\* BETWEEN with a value that is no sequence of two elements
MalformedBetweenConds ==
    {Cond("age", "BETWEEN", v) :
        v \in {ListV(<<>>), ListV(<<1>>), ListV(<<1, 2, 3>>), IntsV(<<1>>),
               NumV(2), StrV(NameA)}}

\* operators BuildQuery does not know
UnknownOps == {"", "like", "<>", "NOT LIKE", "between"}
UnknownConds ==
    {Cond("age", op, NumV(2)) : op \in UnknownOps}
    \cup {Cond("nope", "<>", NumV(2)), Cond("name", "like", StrV(NameA))}

Conds ==
    CompareConds \cup LikeConds \cup InConds \cup BetweenConds
    \cup MalformedBetweenConds \cup UnknownConds

\* the conditions that are put next to another one
PairConds ==
    {Cond("age", ">=", NumV(2)), Cond("name", "LIKE", StrV(<<"b">>)),
     Cond("age", "BETWEEN", ListV(<<1, 2>>)), Cond("age", "BETWEEN", ListV(<<1>>)),
     Cond("age", "<>", NumV(2)), Cond("name", "LIKE", NumV(5))}

SortLists ==
    {<<>>, <<Sort("age", "ASC")>>, <<Sort("age", "DESC")>>,
     <<Sort("age", "DESC"), Sort("id", "DESC")>>, <<Sort("nope", "ASC")>>}

PreloadLists == {<<>>, <<"Tags">>, <<"Profile">>}

\* the values of page and of pagesize in a query string
PageParams ==
    {QAbsent, QText, QRange}
    \cup {QNum(I64(n)) : n \in -1..3}
    \cup {QNum(Big(1, 1))}
PageSizeParams ==
    {QAbsent, QText, QRange} \cup {QNum(I64(n)) : n \in {-1, 0, 1, 2, 4}}

\* the requests: conditions under the default paging, paging over a sorted
\* list, and the key pageSize of the readme's example (?page=1&pageSize=10)
QueryRequests ==
    {[query |-> Query(QAbsent, QAbsent, QAbsent), qb |-> QueryBuilder(cs, <<>>, <<>>)] :
        cs \in {<<>>} \cup {<<c>> : c \in Conds}
               \cup {<<c, d>> : c \in PairConds, d \in PairConds}}
    \cup {[query |-> Query(p, s, QAbsent), qb |-> QueryBuilder(cs, so, <<>>)] :
            p \in PageParams, s \in PageSizeParams,
            cs \in {<<>>, <<Cond("age", ">=", NumV(2))>>},
            so \in {<<>>, <<Sort("age", "DESC")>>}}
    \cup {[query |-> Query(QAbsent, QNum(I64(1)), k), qb |-> QueryBuilder(<<>>, so, pl)] :
            k \in {QAbsent, QNum(I64(2))}, so \in SortLists, pl \in PreloadLists}
    \cup {[query |-> Query(QNum(I64(1)), QAbsent, QNum(I64(n))),
           qb |-> QueryBuilder(<<>>, <<>>, <<>>)] : n \in {2, 10}}

\* a table, user 1 tagged or not; no request yet
InitQuery ==
    /\ \E t \in Tables, tagged \in BOOLEAN :
          DB = [users |-> t, updated_at |-> [id \in DOMAIN t |-> 0],
                seq |-> MaxID, now |-> 0, profiles |-> {},
                tags |-> IF tagged THEN TagNames ELSE {},
                user_tags |-> IF tagged /\ 1 \in DOMAIN t
                              THEN {<<1, tg>> : tg \in TagNames} ELSE {}]
    /\ cache = EmptyFn
    /\ RedisClient = "nil"
    /\ req = NoReq
    /\ resp = NoResp
    /\ log = "none"

\* the one request of a run
GetByQueryBuilder ==
    /\ req = NoReq
    /\ \E r \in QueryRequests, f \in Faults(RedisClient, 2, FALSE) :
          Serve(GetByQueryBuilderOut(RedisClient, DB, cache, r.query, r.qb, f),
                [op |-> "GetByQueryBuilder", query |-> r.query, qb |-> r.qb, f |-> f])

NextQuery == GetByQueryBuilder

SpecQuery == InitQuery /\ [][NextQuery]_vars

---------------------------------------------------------------------------
(* SpecRel: the CRUDTool handlers with relations, with or without Redis *)

\* a user body of the given name, without or with the key Tags
RelBodies(name) ==
    {Malformed}
    \cup {Body(Absent, <<name>>, Absent, Absent, ts) : ts \in Opt(SUBSET TagNames)}

\* the relations a caller names: none, the field Tags, a name that is no field
RelationLists == {<<>>, <<"Tags">>, <<"Nope">>}

TagBodies == {MalformedTag} \cup {TagBody(n) : n \in TagNames}

\* the relations and faults of one write: every relation list without a
\* fault, and every fault of the n store calls with the relation Tags
RelWrites(rc, n, redis) ==
    {[relations |-> rs, f |-> [db |-> 0, redis |-> FALSE]] : rs \in RelationLists}
    \cup {[relations |-> <<"Tags">>, f |-> f] : f \in Faults(rc, n, redis)}

\* the users SpecRel creates at most
MaxRelUsers == 1

InitRel == InitLib

ServeRel(o, r) == o.DB.seq <= MaxRelUsers /\ Serve(o, r)

CreateWithRelations ==
    \E b \in RelBodies(NameA), w \in RelWrites(RedisClient, 3, FALSE) :
        ServeRel(CreateWithRelationsOut(RedisClient, DB, cache, b, w.relations, w.f),
                 [op |-> "CreateWithRelations", body |-> b,
                  relations |-> w.relations, f |-> w.f])

UpdateWithRelations ==
    \E p \in PathParams, b \in RelBodies(NameB), w \in RelWrites(RedisClient, 4, TRUE) :
        ServeRel(UpdateWithRelationsOut(RedisClient, DB, cache, p, b, w.relations, w.f),
                 [op |-> "UpdateWithRelations", id |-> p, body |-> b,
                  relations |-> w.relations, f |-> w.f])

AddRelation ==
    \E p \in PathParams, b \in TagBodies, n \in {"Tags", "Nope"},
       f \in Faults(RedisClient, 3, FALSE) :
        ServeRel(AddRelationOut(RedisClient, DB, cache, p, b, n, f),
                 [op |-> "AddRelation", id |-> p, body |-> b, association |-> n,
                  f |-> f])

GetByIDWithRelations ==
    \E p \in PathParams, w \in RelWrites(RedisClient, 1, FALSE) :
        ServeRel(GetByIDWithRelationsOut(RedisClient, DB, cache, p, w.relations, w.f),
                 [op |-> "GetByIDWithRelations", id |-> p,
                  relations |-> w.relations, f |-> w.f])

GetRelated ==
    \E p \in PathParams, n \in {"Tags", "Nope"}, f \in Faults(RedisClient, 2, FALSE) :
        ServeRel(GetRelatedOut(RedisClient, DB, cache, p, n, f),
                 [op |-> "GetRelated", id |-> p, association |-> n, f |-> f])

\* GetByID(c, model, "Tags"): the cached read, with the tags preloaded
GetByIDWithTags ==
    \E p \in PathParams, f \in Faults(RedisClient, 1, TRUE) :
        ServeRel(GetByIDOut(RedisClient, DB, cache, p, {"Tags"}, f),
                 [op |-> "GetByID", id |-> p, f |-> f])

NextRel ==
    \/ CreateWithRelations
    \/ UpdateWithRelations
    \/ AddRelation
    \/ GetByIDWithRelations
    \/ GetRelated
    \/ GetByIDWithTags
    \/ CacheExpire

SpecRel == InitRel /\ [][NextRel]_vars

---------------------------------------------------------------------------
(* SpecLife: the life of a record (create, read, update, soft delete,
   restore, hard delete) while the clock advances *)

\* the ticks of the clock
MaxClock == 1

\* the bodies sent in SpecLife: a name, or a name under a key ID
LifeBodies ==
    {Body(Absent, <<NameA>>, Absent, Absent, Absent)}
    \cup {Body(<<i>>, <<NameB>>, Absent, Absent, Absent) : i \in IDs}

LifeCreate ==
    \E b \in LifeBodies, f \in Faults(RedisClient, 0, FALSE) :
        ServeRel(CreateOut(RedisClient, DB, cache, b, f),
                 [op |-> "Create", body |-> b, f |-> f])

LifeGetByID ==
    \E p \in PathParams, f \in Faults(RedisClient, 0, TRUE) :
        ServeRel(GetByIDOut(RedisClient, DB, cache, p, {}, f),
                 [op |-> "GetByID", id |-> p, f |-> f])

LifeUpdateByID ==
    \E p \in PathParams, b \in LifeBodies, f \in Faults(RedisClient, 0, TRUE) :
        ServeRel(UpdateByIDOut(RedisClient, DB, cache, p, b, f),
                 [op |-> "UpdateByID", id |-> p, body |-> b, f |-> f])

LifeSoftDeleteByID ==
    \E p \in PathParams, f \in Faults(RedisClient, 0, TRUE) :
        ServeRel(SoftDeleteByIDOut(RedisClient, DB, cache, p, f),
                 [op |-> "SoftDeleteByID", id |-> p, f |-> f])

LifeRestoreSoftDelete ==
    \E p \in PathParams, f \in Faults(RedisClient, 0, FALSE) :
        ServeRel(RestoreSoftDeleteOut(RedisClient, DB, cache, p, f),
                 [op |-> "RestoreSoftDelete", id |-> p, f |-> f])

GetByIDWithSoftDelete ==
    \E p \in PathParams, f \in Faults(RedisClient, 1, FALSE) :
        ServeRel(GetByIDWithSoftDeleteOut(RedisClient, DB, cache, p, {}, f),
                 [op |-> "GetByIDWithSoftDelete", id |-> p, f |-> f])

HardDeleteByID ==
    \E p \in PathParams, f \in Faults(RedisClient, 1, TRUE) :
        ServeRel(HardDeleteByIDOut(RedisClient, DB, cache, p, f),
                 [op |-> "HardDeleteByID", id |-> p, f |-> f])

\* time passes between two requests: gorm's NowFunc gives a later instant
Tick ==
    /\ DB.now < MaxClock
    /\ DB' = [DB EXCEPT !.now = @ + 1]
    /\ req' = NoReq
    /\ resp' = NoResp
    /\ log' = "none"
    /\ UNCHANGED <<cache, RedisClient>>

NextLife ==
    \/ LifeCreate
    \/ LifeGetByID
    \/ LifeUpdateByID
    \/ LifeSoftDeleteByID
    \/ LifeRestoreSoftDelete
    \/ GetByIDWithSoftDelete
    \/ HardDeleteByID
    \/ Tick

SpecLife == InitLib /\ [][NextLife]_vars

---------------------------------------------------------------------------
(* SpecBatch: batch writes and the reads that follow them, with or without
   Redis *)

\* the users a batch body names: no key (0) or a key
BatchItems ==
    {Body(Absent, <<NameA>>, Absent, Absent, Absent)}
    \cup {Body(<<i>>, <<NameB>>, Absent, Absent, Absent) : i \in 1..MaxRelUsers}

BatchModels ==
    {[valid |-> FALSE, models |-> <<>>]}
    \cup {[valid |-> TRUE, models |-> l] :
            l \in UNION {[1..n -> BatchItems] : n \in 0..MaxBatch}}

\* the operation names a caller passes: the four verbs, and "delete"
Operations == BatchVerbs \cup {"delete"}

BatchOperation ==
    \E o \in Operations, b \in BatchModels, f \in Faults(RedisClient, 0, FALSE) :
        ServeRel(BatchOperationOut(RedisClient, DB, cache, o, b, f),
                 [op |-> "BatchOperation", operation |-> o, body |-> b, f |-> f])

NextBatch ==
    \/ BatchOperation
    \/ batchHardDelete
    \/ LifeGetByID

SpecBatch == InitLib /\ [][NextBatch]_vars

---------------------------------------------------------------------------
(* SpecRace: concurrent requests on one record, with Redis and without
   faults.  Every store call and every Redis call of a handler is a step of
   its own; req and resp hold, for each goroutine, the request it serves
   (with the handler's position and its local model) and its response. *)

\* the goroutines serving requests at the same time
NumProcs == 2

Procs == 1..NumProcs

RaceOps == {"GetByID", "UpdateByID", "SoftDeleteByID", "HardDeleteByID"}

\* UpdateByID bodies: a name, or an age
RaceBodies ==
    {Body(Absent, <<NameB>>, Absent, Absent, Absent),
     Body(Absent, Absent, <<1>>, Absent, Absent)}

\* a request in a goroutine: pc is the call the handler makes next, model
\* its local model, wrote the place of its Save among the Saves so far
Proc(op, id, pc, body, model, wrote) ==
    [op |-> op, id |-> id, pc |-> pc, body |-> body, model |-> model, wrote |-> wrote]

Idle == Proc("none", 0, "idle", Malformed, ZeroUser, 0)

\* the handler returns: its response is written, its request is over
Return(p, r) ==
    /\ req' = [req EXCEPT ![p].pc = "done"]
    /\ resp' = [resp EXCEPT ![p] = r]

Goto(p, pc) ==
    /\ req' = [req EXCEPT ![p].pc = pc]
    /\ UNCHANGED resp

\* one user, cached or not, and no request yet
InitRace ==
    /\ DB = CreateUser(EmptyDB, BindJSON(ZeroUser,
                Body(Absent, <<NameA>>, Absent, Absent, Absent))).db
    /\ cache \in {EmptyFn} \cup {[k \in DOMAIN DB.users |-> UserOf(k, DB.users[k], {})]}
    /\ RedisClient = "set"
    /\ req = [p \in Procs |-> Idle]
    /\ resp = [p \in Procs |-> NoResp]
    /\ log = "none"

\* a request arrives: strconv.Atoi gives its id
Accept(p) ==
    /\ req[p].pc = "idle"
    /\ \E op \in RaceOps, id \in 1..DB.seq :
        \E b \in IF op = "UpdateByID" THEN RaceBodies ELSE {Malformed} :
          req' = [req EXCEPT ![p] =
                    Proc(op, id,
                         CASE op = "GetByID" -> "GetFromCache"
                           [] op = "UpdateByID" -> "First"
                           [] OTHER -> "Delete",
                         b, ZeroUser, 0)]
    /\ UNCHANGED <<DB, cache, RedisClient, resp, log>>

\* GetByID: t.GetFromCache(ctx, cacheKey, model)
CallGetFromCache(p) ==
    /\ req[p].pc = "GetFromCache"
    /\ LET h == GetFromCache(RedisClient, cache, GenerateCacheKey(req[p].id), FALSE)
       IN  IF h.hit THEN Return(p, Envelope(StatusOK, "query ok (cache)", h.model))
           ELSE Goto(p, "First")
    /\ UNCHANGED <<DB, cache, RedisClient, log>>

\* GetByID, UpdateByID: First(model, id) in the default scope
CallFirst(p) ==
    /\ req[p].pc = "First"
    /\ LET q == First(DB, req[p].id, {})
       IN  IF ~q.found
           THEN Return(p, Envelope(StatusNotFound, "record not found", NoData))
           ELSE /\ req' = [req EXCEPT ![p].model = q.model,
                                      ![p].pc = IF req[p].op = "GetByID"
                                                THEN "SetToCache" ELSE "Save"]
                /\ UNCHANGED resp
    /\ UNCHANGED <<DB, cache, RedisClient, log>>

\* GetByID: t.SetToCache(ctx, cacheKey, model), then the response
CallSetToCache(p) ==
    /\ req[p].pc = "SetToCache"
    /\ cache' = SetToCache(RedisClient, cache, GenerateCacheKey(req[p].id),
                           req[p].model, FALSE).cache
    /\ Return(p, Envelope(StatusOK, "query ok", req[p].model))
    /\ UNCHANGED <<DB, RedisClient, log>>

\* UpdateByID: c.ShouldBindJSON(model) and t.DB.Save(model)
CallSave(p) ==
    /\ req[p].pc = "Save"
    /\ LET m == BindJSON(req[p].model, req[p].body)
           saves == {req[o].wrote : o \in Procs}
       IN  /\ DB' = SaveUser(DB, m).db
           /\ req' = [req EXCEPT ![p].model = m, ![p].pc = "DeleteFromCache",
                                 ![p].wrote = 1 + CHOOSE n \in saves :
                                                     \A o \in saves : o <= n]
    /\ UNCHANGED <<cache, RedisClient, resp, log>>

\* SoftDeleteByID: t.DB.Delete(model, id); HardDeleteByID:
\* t.DB.Unscoped().Delete(model, id); RowsAffected = 0 is answered 404
CallDelete(p) ==
    /\ req[p].pc = "Delete"
    /\ LET id == req[p].id
           soft == req[p].op = "SoftDeleteByID"
           rows == IF soft THEN id \in DOMAIN DB.users /\ ~DB.users[id].Deleted
                   ELSE id \in DOMAIN DB.users
       IN  IF ~rows
           THEN /\ Return(p, Envelope(StatusNotFound, "record not found", NoData))
                /\ UNCHANGED DB
           ELSE /\ DB' = IF soft THEN [DB EXCEPT !.users[id].Deleted = TRUE]
                         ELSE HardDelete(DB, id)
                /\ Goto(p, "DeleteFromCache")
    /\ UNCHANGED <<cache, RedisClient, log>>

\* UpdateByID, SoftDeleteByID, HardDeleteByID: t.DeleteFromCache(ctx,
\* cacheKey), then the response
CallDeleteFromCache(p) ==
    /\ req[p].pc = "DeleteFromCache"
    /\ cache' = DeleteFromCache(RedisClient, cache, GenerateCacheKey(req[p].id),
                                FALSE).cache
    /\ Return(p, Envelope(StatusOK,
                          IF req[p].op = "UpdateByID" THEN "updated" ELSE "deleted",
                          IF req[p].op = "UpdateByID" THEN req[p].model ELSE NoData))
    /\ UNCHANGED <<DB, RedisClient, log>>

NextRace ==
    \/ \E p \in Procs : Accept(p)
    \/ \E p \in Procs : CallGetFromCache(p)
    \/ \E p \in Procs : CallFirst(p)
    \/ \E p \in Procs : CallSetToCache(p)
    \/ \E p \in Procs : CallSave(p)
    \/ \E p \in Procs : CallDelete(p)
    \/ \E p \in Procs : CallDeleteFromCache(p)

SpecRace == InitRace /\ [][NextRace]_vars

---------------------------------------------------------------------------
(* Claims on the cache shim, under SpecLib *)

\* the id a numeric path parameter names
PathID(r) == r.id.n

\* the row of users as GetByID (without preloads) reads it from the store
StoredUser(db, id) == UserOf(id, db.users[id], {})

\* C1 (as claimed): with a Redis client, the GetByID(K) that follows a
\* successful UpdateByID(K) answers with the record the store now holds for K,
\* not with the entry cached before the update.
C1_UpdateThenGetIsFresh ==
    [][(/\ RedisClient = "set"
        /\ req.op = "UpdateByID" /\ resp.status = StatusOK
        /\ req'.op = "GetByID" /\ req'.id = req.id
        /\ resp'.status = StatusOK)
       => resp'.body.data = StoredUser(DB', PathID(req'))]_vars

\* the handlers that go through GetFromCache, SetToCache or DeleteFromCache
ShimHandlers == {"GetByID", "Create", "UpdateByID", "SoftDeleteByID",
                 "RestoreSoftDelete"}

\* what the handler of request r leaves, from store db and cache ch
HandlerOut(rc, db, ch, r) ==
    CASE r.op = "GetByID" -> GetByIDOut(rc, db, ch, r.id, {}, r.f)
      [] r.op = "Create" -> CreateOut(rc, db, ch, r.body, r.f)
      [] r.op = "UpdateByID" -> UpdateByIDOut(rc, db, ch, r.id, r.body, r.f)
      [] r.op = "SoftDeleteByID" -> SoftDeleteByIDOut(rc, db, ch, r.id, r.f)
      [] r.op = "RestoreSoftDelete" -> RestoreSoftDeleteOut(rc, db, ch, r.id, r.f)
      [] r.op = "GetMetrics" -> GetMetricsOut(rc, db, ch, r.f)

\* the same request served by a CRUDTool whose Redis client never hits
\* (nothing cached, every Redis call of the request failing)
AlwaysMissOut(db, r) ==
    HandlerOut("set", db, EmptyFn, [r EXCEPT !.f.redis = TRUE])

\* a step of a CRUDTool without client, serving one of the handlers ops,
\* leaves the cache empty and the store and response that the always-missing
\* cache would leave
SameAsAlwaysMiss(ops) ==
    (RedisClient = "nil" /\ req'.op \in ops)
    => /\ cache = EmptyFn /\ cache' = EmptyFn
       /\ DB' = AlwaysMissOut(DB, req').DB
       /\ resp' = AlwaysMissOut(DB, req').resp

CacheHit(r) == r.status = StatusOK /\ r.body.message = "query ok (cache)"

Success == {StatusOK, StatusCreated}

\* C14: a store error or a cache error (get, set or delete) met by a handler
\* is surfaced in that request: the handler does not answer with success
\* when one of its store or cache calls failed.
C14_ErrorsAreSurfaced ==
    [][(/\ req'.op \in ShimHandlers
        /\ req'.f.redis \/ (req'.f.db # 0 /\ ~CacheHit(resp')))
       => resp'.status \notin Success]_vars

\* C16: when a handler operation fails (invalid id, bind error, record not
\* found, store error, zero rows affected) its log entry is a failure entry;
\* a success entry is logged only for operations that answered with success.
C16_FailureIsLoggedAsFailure ==
    (req.op \in ShimHandlers /\ resp.status \notin Success) => log = "error"

---------------------------------------------------------------------------
(* Claims on the transaction wrapper and the routes, under Spec *)

\* the handlers of main.go that write through WithTransaction
TxHandlers == {"createUserWithEverything", "updateUserWithTags", "batchHardDelete"}

\* C2: WithTransaction is all-or-nothing. A transactional handler that answers
\* with the failure (500) leaves the store as it was, whichever statement of
\* its function failed; POST /users answering 201 has committed the user row,
\* its profile and every tag of the payload.
C2_TransactionAllOrNothing ==
    [][/\ (req'.op \in TxHandlers /\ resp'.status = StatusInternalServerError)
            => DB' = DB
       /\ (req'.op = "createUserWithEverything" /\ resp'.status = StatusCreated)
            => LET id == resp'.body.data.ID
               IN  /\ id \notin DOMAIN DB.users
                   /\ id \in DOMAIN DB'.users
                   /\ DB'.users[id].Name = req'.body.user.Name[1]
                   /\ id \in DB'.profiles
                   /\ \A t \in req'.body.tags :
                        t \in DB'.tags /\ <<id, t>> \in DB'.user_tags
                   /\ \A k \in DOMAIN DB.users : DB'.users[k] = DB.users[k]]_vars

\* POST /users failed after its function had created the user row
C2_Witness ==
    /\ req.op = "createUserWithEverything"
    /\ req.f.db \in {2, 3}
    /\ resp.status = StatusInternalServerError

\* C3 (as claimed): a successful DELETE /users/batch/hard reports as affected
\* the number of rows it removed from users.
C3_AffectedIsRowsRemoved ==
    [][(req'.op = "batchHardDelete" /\ resp'.status = StatusOK)
       => resp'.body.affected =
            Cardinality(DOMAIN DB.users) - Cardinality(DOMAIN DB'.users)]_vars

\* C4 (as claimed): the GET /users/:id that follows a POST /users answered 201
\* returns the created user with the tags of the payload attached.
C4_GetShowsTagsOfCreate ==
    [][(/\ req.op = "createUserWithEverything" /\ resp.status = StatusCreated
        /\ req'.op = "getUserByID" /\ req'.id = NumParam(resp.body.data.ID)
        /\ req'.f.db = 0)
       => /\ resp'.status = StatusOK
          /\ resp'.body.data.Tags = req.body.tags]_vars

---------------------------------------------------------------------------
(* Claims on the pager and the query builder, under SpecQuery *)

\* a list request that met no store fault
Answered == req.op = "GetByQueryBuilder" /\ req.f.db = 0

IDsOf(data) == [k \in DOMAIN data |-> data[k].ID]

Positive(p) == p.kind = "num" /\ ~I64LessThanOne(p.v)
Invalid(p) == p.kind \in {"absent", "text"} \/ (p.kind = "num" /\ I64LessThanOne(p.v))

\* the rows from offset (page - 1) * pageSize on, at most pageSize of them,
\* the product taken in the integers
SliceAt(list, page, pageSize) ==
    LET n == Len(list)
        from == IF I64Small(page) /\ I64Small(pageSize)
                THEN Min((page.lo - 1) * pageSize.lo, n)
                ELSE IF page = I64(1) THEN 0 ELSE n
        upto == IF I64Small(pageSize) THEN Min(from + pageSize.lo, n) ELSE n
    IN  SubSeq(list, from + 1, upto)

\* the filtered, sorted ids of the request
Listed == LET b == BuildQuery(req.qb) IN Ordered(DB, Selected(DB, b.wheres), b.orders)

WellFormed(qb) ==
    LET b == BuildQuery(qb) IN ~b.panic /\ ~BadColumn(b) /\ ~BadPreload(b)

\* C5: for every page >= 1 and pageSize >= 1 the response holds the slice of
\* the filtered, sorted rows that starts at offset (page-1)*pageSize, with at
\* most pageSize rows, and total is the number of rows matching the filter.
C5_PageIsSliceAtOffset ==
    (Answered /\ WellFormed(req.qb)
     /\ Positive(req.query.page) /\ Positive(req.query.pagesize))
    => /\ resp.status = StatusOK
       /\ IDsOf(resp.body.data)
            = SliceAt(Listed, req.query.page.v, req.query.pagesize.v)
       /\ resp.body.page.total = Len(Listed)

\* C6 as stated: when page or pageSize is below 1, absent or not a number,
\* the pager uses page 1 and pageSize 10.
C6_DefaultsToOneAndTen ==
    (Answered /\ WellFormed(req.qb)
     /\ (Invalid(req.query.page) \/ Invalid(req.query.pagesize)))
    => /\ resp.body.page.page = I64(1)
       /\ resp.body.page.pageSize = I64(10)

Used(p, default) == IF Invalid(p) THEN I64(default) ELSE p.v

\* C6 amended: each parameter falls back on its own: page is 1 when it is
\* below 1, absent or not a number and pageSize is 10 likewise, while a valid
\* value of the other parameter is kept; the fetch uses these values.
C6_EachDefaultsOnItsOwn ==
    (Answered /\ WellFormed(req.qb)
     /\ req.query.page.kind # "range" /\ req.query.pagesize.kind # "range"
     /\ (Invalid(req.query.page) \/ Invalid(req.query.pagesize)))
    => LET page == Used(req.query.page, 1)
           pageSize == Used(req.query.pagesize, 10)
       IN  /\ resp.status = StatusOK
           /\ resp.body.page.page = page
           /\ resp.body.page.pageSize = pageSize
           /\ (I64Small(page) /\ I64Small(pageSize))
                => IDsOf(resp.body.data) = SliceAt(Listed, page, pageSize)

\* page=3 with pagesize=0 was answered with page 3 of size 10
C6_Witness ==
    /\ Answered
    /\ req.query.page = QNum(I64(3))
    /\ req.query.pagesize = QNum(I64(0))
    /\ resp.status = StatusOK
    /\ resp.body.page.page = I64(3)
    /\ resp.body.page.pageSize = I64(10)

SupportedOps == CompareOps \cup {"LIKE", "IN", "NOT IN", "BETWEEN"}

\* str holds sub as a substring
Contains(str, sub) ==
    \E i \in 0..(Len(str) - Len(sub)) : SubSeq(str, i + 1, i + Len(sub)) = sub

\* the reference filter: whether row id satisfies the condition
Matches(db, id, cond) ==
    LET c == Col(db, id, cond.Field)
        v == cond.Value
    IN  CASE cond.Operator = "=" -> c = v
          [] cond.Operator = "!=" -> c # v
          [] cond.Operator = ">" -> c.n > v.n
          [] cond.Operator = "<" -> c.n < v.n
          [] cond.Operator = ">=" -> c.n >= v.n
          [] cond.Operator = "<=" -> c.n <= v.n
          [] cond.Operator = "LIKE" -> Contains(c.s, v.s)
          [] cond.Operator = "IN" -> c.n \in Range(v.l)
          [] cond.Operator = "NOT IN" -> c.n \notin Range(v.l)
          [] cond.Operator = "BETWEEN" -> v.l[1] <= c.n /\ c.n <= v.l[2]

\* the rows the reference filter selects: those satisfying every condition
Filtered(db, conds) ==
    {id \in DOMAIN db.users :
        /\ ~db.users[id].Deleted
        /\ \A i \in DOMAIN conds : Matches(db, id, conds[i])}

\* a condition of a supported operator on a column of the table, BETWEEN
\* with its two bounds
Supported(cond) ==
    /\ cond.Operator \in SupportedOps
    /\ cond.Field \in Columns
    /\ cond.Operator = "BETWEEN" => Len(cond.Value.l) = 2

\* C7: for the supported operators and every condition value, the query
\* selects exactly the rows the reference filter selects: BETWEEN [lo,hi]
\* those with lo <= field <= hi, several conditions the rows satisfying all.
C7_SelectsWhatReferenceSelects ==
    (Answered /\ req.query = Query(QAbsent, QAbsent, QAbsent)
     /\ \A i \in DOMAIN req.qb.Conditions : Supported(req.qb.Conditions[i]))
    => /\ resp.status = StatusOK
       /\ Range(IDsOf(resp.body.data)) = Filtered(DB, req.qb.Conditions)
       /\ resp.body.page.total = Cardinality(Filtered(DB, req.qb.Conditions))

\* an operator BuildQuery does not know, or BETWEEN without two bounds
Dropped(cond) ==
    \/ cond.Operator \notin SupportedOps
    \/ cond.Operator = "BETWEEN" /\ Len(cond.Value.l) # 2

Without(conds, i) == SubSeq(conds, 1, i - 1) \o SubSeq(conds, i + 1, Len(conds))

\* C8: a condition with an unknown operator, or a BETWEEN condition whose
\* value is no sequence of two elements, adds no predicate and raises no
\* error: the response is that of the request without the condition.
C8_DroppedConditionChangesNothing ==
    req.op = "GetByQueryBuilder"
    => \A i \in DOMAIN req.qb.Conditions :
          Dropped(req.qb.Conditions[i])
          => /\ WhereOf(req.qb.Conditions[i]) = <<>>
             /\ ~Panics(req.qb.Conditions[i])
             /\ resp = GetByQueryBuilderOut(
                           RedisClient, DB, cache, req.query,
                           [req.qb EXCEPT !.Conditions = Without(@, i)], req.f).resp

\* age >= 2 next to a BETWEEN with one bound, over rows of which the
\* condition age >= 2 selects some and leaves some out
C8_Witness ==
    /\ Answered
    /\ req.qb.Conditions
         = <<Cond("age", ">=", NumV(2)), Cond("age", "BETWEEN", ListV(<<1>>))>>
    /\ resp.status = StatusOK
    /\ resp.body.page.total = 1
    /\ Cardinality({id \in DOMAIN DB.users : ~DB.users[id].Deleted}) = 2

\* C9: a LIKE condition, whatever its value, is answered (BuildQuery
\* completes) with the rows whose field holds the value as a substring.
C9_LikeCompletesWithSubstringMatch ==
    (Answered /\ req.query = Query(QAbsent, QAbsent, QAbsent)
     /\ Len(req.qb.Conditions) = 1
     /\ req.qb.Conditions[1].Operator = "LIKE"
     /\ req.qb.Conditions[1].Field \in Columns)
    => /\ resp.status = StatusOK
       /\ Range(IDsOf(resp.body.data)) = Filtered(DB, req.qb.Conditions)

---------------------------------------------------------------------------
(* Claims on the handlers with relations, under SpecRel *)

\* the handlers that write the one record named by the path id
SingleRecordWrites ==
    {"UpdateByID", "UpdateWithRelations", "SoftDeleteByID", "HardDeleteByID",
     "RestoreSoftDelete", "AddRelation"}

\* C11: every handler that writes the record named by the path id has
\* deleted the record's cache key when it answers with success (Redis
\* configured and answering): the key is not in the cache after the step.
C11_WriteDeletesCacheKey ==
    [][(/\ req'.op \in SingleRecordWrites
        /\ resp'.status = StatusOK
        /\ RedisClient = "set"
        /\ ~req'.f.redis)
       => PathID(req') \notin DOMAIN cache']_vars

\* the handlers whose write takes several statements
MultiStepWrites ==
    {"CreateWithRelations", "UpdateWithRelations", "AddRelation",
     "createUserWithEverything", "updateUserWithTags", "batchHardDelete"}

---------------------------------------------------------------------------
(* Claims on the error taxonomy and the envelope, under Spec *)

\* the routes of main.go on users
UserRoutes ==
    {"createUserWithEverything", "getAllUsers", "getUserByID", "updateUserWithTags",
     "softDeleteUser", "restoreUser", "batchHardDelete"}

HasID(r) == "id" \in DOMAIN r
HasBody(r) == "body" \in DOMAIN r
BadID(r) == HasID(r) /\ r.id.kind # "num"
BadBody(r) == HasBody(r) /\ ~r.body.valid

\* the row the request names is there for the request: any row for the
\* unscoped restore, a row that is not soft-deleted for the other routes
RowThere(db, r) ==
    /\ r.id.n \in DOMAIN db.users
    /\ r.op # "restoreUser" => ~db.users[r.id.n].Deleted

\* C13 (routes of main.go): a bad id or a malformed body is answered 400, a
\* missing row (a soft-deleted one included, on a default-scoped path) 404,
\* any other store or transaction error 500.
C13_ErrorTaxonomy ==
    [][req'.op \in UserRoutes
       => /\ (BadID(req') \/ (BadBody(req') /\ (HasID(req') => RowThere(DB, req'))))
               => resp'.status = StatusBadRequest
          /\ (HasID(req') /\ ~BadID(req') /\ ~RowThere(DB, req') /\ req'.f.db = 0)
               => resp'.status = StatusNotFound
          /\ (/\ req'.f.db # 0 /\ ~BadID(req') /\ ~BadBody(req')
              /\ HasID(req') => RowThere(DB, req'))
               => resp'.status = StatusInternalServerError]_vars

\* C15: every response of every route, success or error, is the envelope
\* {code, message, data, page?} with code equal to the HTTP status.
C15_UniformEnvelope ==
    req.op \in UserRoutes \cup {"GetMetrics"}
    => /\ {"code", "message", "data"} \subseteq DOMAIN resp.body
       /\ DOMAIN resp.body \subseteq {"code", "message", "data", "page"}
       /\ resp.body.code = resp.status


---------------------------------------------------------------------------
(* Claims on soft delete, restore and hard delete, under SpecLife *)

\* the request names a record by a number and meets no store fault
OnRecord(r, ops) == r.op \in ops /\ r.id.kind = "num" /\ r.f.db = 0

SoftDeleted(db, k) == k \in DOMAIN db.users /\ db.users[k].Deleted

Active(db, k) == k \in DOMAIN db.users /\ ~db.users[k].Deleted

\* C17: while K is soft-deleted (SoftDeleteByID(K) succeeded and K is not
\* restored), GetByID(K) and UpdateByID(K) answer NotFound, also when K was
\* cached before the deletion; the row stays in the store with its deletion
\* marker, and GetByIDWithSoftDelete(K) answers with it.
C17_SoftDeletedIsHiddenNotRemoved ==
    [][/\ (OnRecord(req', {"GetByID", "UpdateByID"}) /\ SoftDeleted(DB, PathID(req')))
          => resp'.status = StatusNotFound
       /\ (OnRecord(req', {"GetByIDWithSoftDelete"}) /\ SoftDeleted(DB, PathID(req')))
          => /\ resp'.status = StatusOK
             /\ resp'.body.data = StoredUser(DB, PathID(req'))
       /\ \A k \in IDs :
            (/\ SoftDeleted(DB, k)
             /\ ~(/\ OnRecord(req', {"RestoreSoftDelete", "HardDeleteByID"})
                  /\ PathID(req') = k /\ resp'.status = StatusOK))
            => SoftDeleted(DB', k)]_vars


\* C18: RestoreSoftDelete on a record that exists and is not soft-deleted
\* answers success and is a no-op: the record and its associations are the
\* same after it as before.
C18_RestoreOfActiveIsNoOp ==
    [][(OnRecord(req', {"RestoreSoftDelete"}) /\ Active(DB, PathID(req')))
       => (resp'.status = StatusOK /\ DB' = DB)]_vars


\* C19: SoftDeleteByID on a record that is already soft-deleted matches no
\* row and answers 404; the store, the deletion marker included, is unchanged.
C19_SoftDeleteTwiceIsNotFound ==
    [][(OnRecord(req', {"SoftDeleteByID"}) /\ SoftDeleted(DB, PathID(req')))
       => (resp'.status = StatusNotFound /\ DB' = DB)]_vars

\* a soft delete of the soft-deleted record 1 was answered
C19_Witness ==
    /\ OnRecord(req, {"SoftDeleteByID"}) /\ PathID(req) = 1
    /\ resp.status = StatusNotFound
    /\ SoftDeleted(DB, 1)

\* C20: a successful HardDeleteByID(K) removes the row K, soft-deleted before
\* or not; while the row is gone RestoreSoftDelete(K) and
\* GetByIDWithSoftDelete(K) answer NotFound and leave the store as it is.
C20_HardDeleteRemovesForGood ==
    [][/\ (OnRecord(req', {"HardDeleteByID"}) /\ resp'.status = StatusOK)
          => PathID(req') \notin DOMAIN DB'.users
       /\ (OnRecord(req', {"HardDeleteByID"}) /\ PathID(req') \in DOMAIN DB.users)
          => resp'.status = StatusOK
       /\ (/\ OnRecord(req', {"RestoreSoftDelete", "GetByIDWithSoftDelete"})
           /\ PathID(req') \notin DOMAIN DB.users)
          => (resp'.status = StatusNotFound /\ DB' = DB)]_vars

\* record 1 was created and hard-deleted, and a restore of it was then
\* answered
C20_Witness ==
    /\ OnRecord(req, {"RestoreSoftDelete"}) /\ PathID(req) = 1
    /\ resp.status = StatusNotFound
    /\ DB.seq >= 1 /\ 1 \notin DOMAIN DB.users


---------------------------------------------------------------------------
(* Claims on the batch writes, under SpecBatch *)

\* the keys of the active rows of users
ActiveKeys(db) == {k \in DOMAIN db.users : ~db.users[k].Deleted}

\* C21: BatchOperation called with the operation name "delete" deletes the
\* records named in the body and answers success: none of them is an active
\* row afterwards.
C21_DeleteVerbDeletes ==
    [][(/\ req'.op = "BatchOperation" /\ req'.operation = "delete"
        /\ req'.body.valid /\ req'.f.db = 0
        /\ KeysOf(BindAll(req'.body.models)) # {})
       => (/\ resp'.status = StatusOK
           /\ KeysOf(BindAll(req'.body.models)) \cap ActiveKeys(DB') = {})]_vars


\* C28: with a cache configured, a GetByID(K) that follows the batch writes
\* (the only writes of SpecBatch) reflects the store: NotFound when K is no
\* active row, else the stored record, and never the value cached before a
\* batch write.
C28_ReadAfterBatchReflectsStore ==
    [][(/\ RedisClient = "set"
        /\ OnRecord(req', {"GetByID"}) /\ ~req'.f.redis)
       => IF PathID(req') \in ActiveKeys(DB)
          THEN /\ resp'.status = StatusOK
               /\ resp'.body.data = StoredUser(DB, PathID(req'))
          ELSE resp'.status = StatusNotFound]_vars


---------------------------------------------------------------------------
(* Claims on the query parameters of the pager, under SpecQuery *)

\* C22: a list request that carries the query parameter pageSize=N, N >= 1
\* (and no key of another spelling), is fetched and reported with page size N: page.pageSize is N and the data
\* are the rows of the page of size N.
C22_PageSizeKeyIsRead ==
    (Answered /\ WellFormed(req.qb)
     /\ req.query.page.kind \in {"absent", "num"}
     /\ req.query.pagesize.kind = "absent"
     /\ Positive(req.query.pageSize))
    => /\ resp.status = StatusOK
       /\ resp.body.page.pageSize = req.query.pageSize.v
       /\ IDsOf(resp.body.data)
            = SliceAt(Listed, Used(req.query.page, DefaultPage), req.query.pageSize.v)


\* the product x * y in the integers, as the coefficients of 2^124, 2^62, 1
Product(x, y) ==
    [hh |-> x.hi * y.hi, hi |-> x.hi * y.lo + y.hi * x.lo, lo |-> x.lo * y.lo]

\* the int z is the integer of these coefficients: nothing was reduced
\* modulo 2^64
Exact(z, product) == product.hh = 0 /\ z.hi = product.hi /\ z.lo = product.lo

\* C29: for every page >= 1 and pageSize >= 1 that parse as ints, the offset
\* handed to the store is the integer (page - 1) * pageSize and is not
\* negative: the multiplication does not wrap around.
C29_OffsetDoesNotWrap ==
    (Answered /\ Positive(req.query.page) /\ Positive(req.query.pagesize))
    => LET page == PageOf(req.query)
           pageSize == PageSizeOf(req.query)
           offset == PageOffset(page, pageSize)
       IN  /\ Exact(offset, Product(I64Sub(req.query.page.v, 1), req.query.pagesize.v))
           /\ ~I64Negative(offset)


---------------------------------------------------------------------------
(* Claims on the order of a handler's steps, under SpecLib *)

\* C23: a handler runs bind, validate-id, existence-check, execute,
\* cache-invalidate, respond in this order; the first failing step gives the
\* error response and no later step runs.  For UpdateByID: a malformed body
\* is rejected (400) by the bind, before the existence check can answer 404
\* or 500; an id that is no number is rejected (400); and a request that is
\* not answered with success has written neither store nor cache (req' # req:
\* the step serves a request, it is not the expiry of a cache entry).
C23_StepsRunInOrder ==
    [][(req'.op = "UpdateByID" /\ ~req'.f.redis)
       => /\ ~req'.body.valid => resp'.status = StatusBadRequest
          /\ req'.id.kind = "text" => resp'.status = StatusBadRequest
          /\ (resp'.status # StatusOK /\ req' # req)
             => (DB' = DB /\ cache' = cache)]_vars


\* C25: a successful UpdateByID addressed to path id K changes only the
\* stored record K: for every body no other row is modified, no row is
\* created, and the cache key deleted is the key of the row written.
C25_UpdateWritesOnlyItsRecord ==
    [][(req'.op = "UpdateByID" /\ resp'.status = StatusOK)
       => /\ DOMAIN DB'.users = DOMAIN DB.users
          /\ \A j \in DOMAIN DB.users \ {PathID(req')} : DB'.users[j] = DB.users[j]
          /\ (RedisClient = "set" /\ ~req'.f.redis)
             => resp'.body.data.ID \notin DOMAIN cache']_vars


---------------------------------------------------------------------------
(* Claims on concurrent requests, under SpecRace *)

AllDone == \A p \in Procs : req[p].pc = "done"

AllOps(ops) == \A p \in Procs : req[p].op \in ops

\* the goroutine whose Save ran last
LastWriter == CHOOSE p \in Procs : \A o \in Procs : req[o].wrote <= req[p].wrote

\* C24: concurrent UpdateByID requests on one record are last-write-wins:
\* when all have completed, each was answered with success (no lock, no
\* conflict error) and the stored row is the full row written by the Save
\* that ran last, that request's earlier read merged with its body.
C24_LastWriteWins ==
    (AllDone /\ AllOps({"UpdateByID"}))
    => /\ \A p \in Procs : resp[p].status = StatusOK
       /\ DB.users[req[LastWriter].id] = RowOf(req[LastWriter].model)

\* two updates with different bodies have completed and the row lacks what
\* the earlier Save wrote
C24_Witness ==
    /\ AllDone /\ AllOps({"UpdateByID"})
    /\ \E p \in Procs :
          /\ req[p].wrote < req[LastWriter].wrote
          /\ req[p].body # req[LastWriter].body
          /\ DB.users[req[p].id] # RowOf(req[p].model)

\* C26: with a cache and no errors, under every interleaving of GetByID,
\* UpdateByID and SoftDeleteByID on K, once all requests have completed a
\* cache entry of K, if there is one, is the store's active record K.
C26_CacheAgreesWhenQuiet ==
    (AllDone /\ AllOps({"GetByID", "UpdateByID", "SoftDeleteByID"}))
    => \A k \in DOMAIN cache :
          Active(DB, k) /\ cache[k] = StoredUser(DB, k)

\* C27: no handler but RestoreSoftDelete (which SpecRace does not run) moves
\* a record from soft-deleted to active, and none brings a hard-deleted
\* record back: a soft-deleted row stays soft-deleted or is removed, an
\* absent row stays absent.
C27_OnlyRestoreRevives ==
    [][\A k \in 1..DB.seq :
          /\ SoftDeleted(DB, k) => ~Active(DB', k)
          /\ k \notin DOMAIN DB.users => k \notin DOMAIN DB'.users]_vars

=============================================================================
